---- MODULE Spec2Model ----
(***************************************************************************)
(* Model of the frame loop of the WebGPU examples, starting with the      *)
(* N-body simulation (src/src/examples/n_body_simulation.c): the static   *)
(* module state, example_initialize, example_render, update_fps_counter   *)
(* (its call count), build_command_buffer, example_draw and               *)
(* example_on_key_pressed.                                                 *)
(*                                                                         *)
(* Device buffers are named by the field that holds their handle.  A      *)
(* view-projection matrix is represented by the eye z it was computed     *)
(* from; lengths along z are in thousandths (z_inc 0.025 is 25).          *)
(*                                                                         *)
(* SpecLifecycle adds creations that return a null handle, frames whose   *)
(* image acquisition or command buffer fails, and example_destroy.        *)
(* SpecWaves runs update_uniform_buffers_gerstner_waves of                *)
(* gerstner_waves.c repeatedly; SpecSeed runs init_bodies per body count. *)
(* SpecGerstner runs the callbacks of gerstner_waves.c with run_time and  *)
(* the pause flag as environment steps; SpecFilter runs the callbacks of  *)
(* compute_shader.c per texture size; SpecExamples runs any one of the    *)
(* three examples from initialization to example_destroy.                 *)
(***************************************************************************)
EXTENDS Integers, Sequences, FiniteSets, TLC

VARIABLES
  prepared,        \* static bool prepared
  paused,          \* context->paused
  frame_idx,       \* static uint32_t frame_idx
  num_bodies,      \* static uint32_t num_bodies
  workgroup_size,  \* static uint32_t workgroup_size
  eye_position,    \* eye_position[2], in thousandths
  render_params,   \* [view_projection_matrix, changed]
  uniform_buffer,  \* contents of uniform_buffers.render_params.buffer
  bind_groups,     \* [compute : <<bg0, bg1>>, render]
  queue_log,       \* queue operations issued by the latest handler call
  frame,           \* what the latest example_render call recorded and submitted
  nframes,         \* example_render calls that built a command buffer
  ndispatch,       \* compute dispatches recorded so far
  last_out,        \* binding 1 of the latest recorded dispatch
  out_uses,        \* per buffer: dispatches that had it at binding 1
  paused_run,      \* consecutive paused frames ending with the latest frame
  init_result,     \* return value of the latest example_initialize, -1 if none
  render_result,   \* return value of the latest example_render, -1 if none
  handles,         \* per static device object: "null", "live" or "released"
  buffer_sizes,    \* the .size fields of uniform_buffers and storage_buffers
  bind_group_layouts, \* [compute : minBindingSize of bindings 0..2]
  host_writes,     \* per storage buffer: wgpu_queue_write_buffer calls on it
  aborted,         \* "no", or where a failed ASSERT ended the process
  released,        \* the objects example_destroy released, in order
  gerstner_wave_params,      \* gerstner_waves.c: [waves, amplitude_sum]
  gerstner_waves_normalized, \* gerstner_waves.c: static bool
  wave_buffer,               \* contents of uniform_buffers.gerstner_wave_params
  wave_calls,                \* calls of update_uniform_buffers_gerstner_waves
  normalize_runs,            \* calls that ran the normalize loop
  first_directions,          \* the directions as the first call left them
  seed_count,                \* num_bodies of the init_bodies call
  seed_positions,            \* storage_buffers.positions_in.positions
  seed_writes,               \* queue writes init_bodies issued
  fps_counter,               \* n_body_simulation.c: [last_fps_update_time_valid,
                             \*   updates: calls of update_fps_counter]
  example,                   \* the example example_run was started with
  gw_prepared,               \* gerstner_waves.c: static bool prepared
  gw_paused,                 \* context->paused
  run_time,                  \* context->run_time, in ticks
  gw_frame,                  \* the latest frame: paused flag, time, what it found
  start_time,                \* gerstner_waves.c: static float start_time
  scene_data,                \* [elapsed_time, view_position]
  controls,                  \* gerstner_waves.c: controls
  scene_buffer,              \* contents of uniform_buffers.scene
  scene_writes,              \* queue writes to uniform_buffers.scene
  gw_handles,                \* per device object: "null", "live", "released"
  gw_released,               \* what example_destroy released, in order
  gw_nframes,                \* frames submitted
  gw_init_result,            \* latest example_initialize result, -1 if none
  gw_render_result,          \* latest example_render result, -1 if none
  cs_prepared,               \* compute_shader.c: static bool prepared
  compute_pipeline_index,    \* compute.pipeline_index
  textures,                  \* size of textures.color_map and compute_target
  cs_bind_groups,            \* [compute, pre_compute, post_compute]
  cs_frame,                  \* what the latest frame recorded and submitted
  cs_nframes,                \* frames submitted
  cs_uniform_writes,         \* queue writes to uniform_buffer_vs
  cs_handles,                \* per device object: "null", "live", "released"
  cs_released,               \* what example_destroy released, in order
  cs_init_result,            \* latest example_initialize result, -1 if none
  cs_render_result           \* latest example_render result, -1 if none

nbody_vars == <<prepared, paused, frame_idx, num_bodies, workgroup_size,
                eye_position, render_params, uniform_buffer, bind_groups,
                queue_log, frame, nframes, ndispatch, last_out, out_uses,
                paused_run, init_result, render_result, handles,
                buffer_sizes, bind_group_layouts, host_writes, aborted,
                released, fps_counter>>

waves_vars == <<gerstner_wave_params, gerstner_waves_normalized, wave_buffer,
                wave_calls, normalize_runs, first_directions>>

seed_vars == <<seed_count, seed_positions, seed_writes>>

gw_vars == <<gw_prepared, gw_paused, run_time, gw_frame, start_time, scene_data,
             controls, scene_buffer, scene_writes, gw_handles, gw_released,
             gw_nframes, gw_init_result, gw_render_result>>

cs_vars == <<cs_prepared, compute_pipeline_index, textures, cs_bind_groups,
             cs_frame, cs_nframes, cs_uniform_writes, cs_handles, cs_released,
             cs_init_result, cs_render_result>>

\* the state the N-body callbacks never touch
other_vars == <<waves_vars, seed_vars, gw_vars, cs_vars, example>>

vars == <<nbody_vars, waves_vars, seed_vars, gw_vars, cs_vars, example>>

----------------------------------------------------------------------------
(* Bounds of the model *)

MaxFrames == 10

MaxEyeSteps == 1

MaxSmallBodies == 200

BodySpread == 65

SizingFrames == 1

LifeFrames == 2

MaxWaveCalls == 3

MaxSeedBodies == 2

MaxFilterFrames == 3

MaxWaveFrames == 3

MaxRunTime == 3

ToleranceUlps == 2

----------------------------------------------------------------------------
(* Program constants *)

NUM_BODIES == 8192

WORKGROUP_SIZE == 64

INITIAL_EYE_Z == -1500

Z_INC == 25

FloatMantissaBits == 24

WorkgroupSizes == {1, 3, 64, 256}

Keys == {"KEY_UP", "KEY_DOWN", "KEY_OTHER"}

PositionsIn == "positions_in"

PositionsOut == "positions_out"

Velocities == "velocities"

RenderParamsBuffer == "render_params"

NoBuffer == "none"

NullBindGroup == [b0 |-> NoBuffer, b1 |-> NoBuffer, b2 |-> NoBuffer]

ZeroMatrix == <<"zero", 0>>

----------------------------------------------------------------------------
(* Single-precision arithmetic of `ceil(num_bodies / (float)workgroup_size)` *)

RECURSIVE Pow2(_)
Pow2(k) == IF k <= 0 THEN 1 ELSE 2 * Pow2(k - 1)

RECURSIVE BitLen(_)
BitLen(n) == IF n <= 0 THEN 0 ELSE 1 + BitLen(n \div 2)

\* n rounded to the nearest multiple of q, ties to the even multiple
RoundToEven(n, q) ==
  LET r == n % q
      d == n - r
  IN  IF 2 * r < q THEN d
      ELSE IF 2 * r > q THEN d + q
      ELSE IF (d \div q) % 2 = 0 THEN d ELSE d + q

\* (float)n for an unsigned integer n: FloatMantissaBits significant bits
U32ToFloat(n) ==
  IF n < Pow2(FloatMantissaBits) THEN n
  ELSE RoundToEven(n, Pow2(BitLen(n) - FloatMantissaBits))

\* ceil(a / w) where a / w is the single-precision quotient of two
\* integer-valued floats, rounded to nearest-even before ceil sees it
CeilFloatDiv(a, w) ==
  LET k   == a \div w
      rem == a % w
      e   == BitLen(k) - 1
  IN  IF rem = 0 THEN k
      ELSE IF k = 0 THEN 1
      ELSE IF e >= FloatMantissaBits - 1
        THEN \* every float this large is an integer
             LET s     == Pow2(e - (FloatMantissaBits - 1))
                 lower == k - (k % s)
             IN  IF s = 1
                   THEN IF 2 * rem < w THEN k
                        ELSE IF 2 * rem > w THEN k + 1
                        ELSE IF k % 2 = 0 THEN k ELSE k + 1
                   ELSE IF 2 * (k % s) < s THEN lower ELSE lower + s
        ELSE \* the quotient rounds down onto k iff its fraction is at most
             \* half an ulp of k (k's mantissa is even here)
             IF rem <= w \div (2 * Pow2((FloatMantissaBits - 1) - e))
               THEN k ELSE k + 1

DispatchCountFloor(n, w) == n \div w

\* the x count of wgpuComputePassEncoderDispatch
DispatchCount(n, w) == CeilFloatDiv(U32ToFloat(n), U32ToFloat(w))

----------------------------------------------------------------------------
(* Setup *)

ViewProjection(eye_z) == <<"view_projection", eye_z>>

SetupComputeBindGroupSameRoles ==
  << [b0 |-> PositionsIn, b1 |-> PositionsOut, b2 |-> Velocities],
     [b0 |-> PositionsIn, b1 |-> PositionsOut, b2 |-> Velocities] >>

SetupComputeBindGroupAliased ==
  << [b0 |-> PositionsIn,  b1 |-> PositionsOut, b2 |-> Velocities],
     [b0 |-> PositionsIn,  b1 |-> PositionsIn,  b2 |-> Velocities] >>

\* bind_groups.compute[0] and bind_groups.compute[1]
SetupComputeBindGroup ==
  << [b0 |-> PositionsIn,  b1 |-> PositionsOut, b2 |-> Velocities],
     [b0 |-> PositionsOut, b1 |-> PositionsIn,  b2 |-> Velocities] >>

\* binding types of bind_group_layouts.compute
SetupComputePipelineLayout ==
  [b0 |-> "ReadOnlyStorage", b1 |-> "Storage", b2 |-> "Storage"]

SubmitOp == [op |-> "submit", buf |-> NoBuffer, data |-> ZeroMatrix]

WriteOp(buf, data) == [op |-> "write", buf |-> buf, data |-> data]

\* update_uniform_buffers: the host matrix, the queue write, the cleared flag
UpdateUniformBuffers(eye_z) ==
  [ render_params |-> [view_projection_matrix |-> ViewProjection(eye_z),
                       changed |-> FALSE],
    write |-> WriteOp(RenderParamsBuffer, ViewProjection(eye_z)) ]

\* init_bodies: the seed is the one host write to a storage buffer
InitBodies == WriteOp(PositionsIn, <<"seed", 0>>)

\* The queue executes its operations in order: a submission reads the
\* uniform buffer as the writes before it left it.
RECURSIVE ExecQueue(_, _, _)
ExecQueue(ops, ubuf, seen) ==
  IF ops = <<>> THEN [uniform_buffer |-> ubuf, seen |-> seen]
  ELSE LET o == Head(ops)
       IN  IF o.op = "write" /\ o.buf = RenderParamsBuffer
             THEN ExecQueue(Tail(ops), o.data, seen)
           ELSE IF o.op = "submit"
             THEN ExecQueue(Tail(ops), ubuf, Append(seen, ubuf))
           ELSE ExecQueue(Tail(ops), ubuf, seen)

StorageBuffers == {PositionsIn, PositionsOut, Velocities}

\* .size = num_bodies * 4 * 4, in uint32_t arithmetic:
\* (16 * n) mod 2^32 = 16 * (n mod 2^28)
StorageBufferSize(n) == 16 * (n % Pow2(28))

PrepareStorageBuffersShortOut(n) ==
  [b \in StorageBuffers \cup {RenderParamsBuffer} |->
     IF b = RenderParamsBuffer THEN 64
     ELSE IF b = PositionsOut THEN 12 * (n % Pow2(28))
     ELSE StorageBufferSize(n)]

\* the sizes prepare_uniform_buffers and prepare_storage_buffers record
\* (sizeof(mat4) is 64)
PrepareStorageBuffers(n) ==
  [b \in StorageBuffers \cup {RenderParamsBuffer} |->
     IF b = RenderParamsBuffer THEN 64 ELSE StorageBufferSize(n)]

NoSizes == [b \in StorageBuffers \cup {RenderParamsBuffer} |-> 0]

\* minBindingSize of the three entries of bind_group_layouts.compute
SetupComputeMinBindingSizes(sizes) ==
  [b0 |-> sizes[PositionsIn], b1 |-> sizes[PositionsOut],
   b2 |-> sizes[Velocities]]

\* the .size of each entry of compute[0] and compute[1]: the size of the
\* buffer that entry binds
SetupComputeBindGroupSizes(sizes) ==
  [i \in 1..2 |->
     [b0 |-> sizes[SetupComputeBindGroup[i].b0],
      b1 |-> sizes[SetupComputeBindGroup[i].b1],
      b2 |-> sizes[SetupComputeBindGroup[i].b2]]]

\* The static device objects, in the order example_initialize creates them
CreationOrder ==
  << "uniform_buffers.render_params",
     "storage_buffers.positions_in", "storage_buffers.positions_out",
     "storage_buffers.velocities",
     "bind_group_layouts.compute", "pipeline_layouts.compute",
     "bind_group_layouts.render", "pipeline_layouts.render",
     "pipelines.compute", "pipelines.render",
     "bind_groups.compute[0]", "bind_groups.compute[1]",
     "bind_groups.render" >>

Objects == {CreationOrder[i] : i \in 1..Len(CreationOrder)}

Pos(o) == CHOOSE i \in 1..Len(CreationOrder) : CreationOrder[i] = o

CheckedAfterCreationAll == Objects

\* the objects whose handle is ASSERTed non-null right after creation
CheckedAfterCreation ==
  Objects \ {"uniform_buffers.render_params", "pipelines.compute",
             "pipelines.render"}

\* the layout each bind group and each pipeline is created from
CreatedFrom ==
  [o \in {"bind_groups.compute[0]", "bind_groups.compute[1]",
          "bind_groups.render", "pipelines.compute", "pipelines.render"} |->
     IF o \in {"bind_groups.compute[0]", "bind_groups.compute[1]"}
       THEN "bind_group_layouts.compute"
     ELSE IF o = "bind_groups.render" THEN "bind_group_layouts.render"
     ELSE IF o = "pipelines.compute" THEN "pipeline_layouts.compute"
     ELSE "pipeline_layouts.render"]

\* example_destroy: the order of its WGPU_RELEASE_RESOURCE lines
DestroyOrder ==
  << "uniform_buffers.render_params",
     "storage_buffers.positions_in", "storage_buffers.positions_out",
     "storage_buffers.velocities",
     "bind_group_layouts.compute", "bind_group_layouts.render",
     "bind_groups.compute[0]", "bind_groups.compute[1]",
     "bind_groups.render",
     "pipeline_layouts.compute", "pipeline_layouts.render",
     "pipelines.compute", "pipelines.render" >>

HostWrites(ops, b) ==
  Cardinality({i \in 1..Len(ops) : ops[i].op = "write" /\ ops[i].buf = b})

----------------------------------------------------------------------------
(* build_command_buffer *)

ComputePassCmds ==
  << "BeginComputePass", "SetComputePipeline", "SetComputeBindGroup",
     "Dispatch", "EndComputePass" >>

RenderPassCmds ==
  << "BeginRenderPass", "SetRenderPipeline", "SetRenderBindGroup",
     "SetVertexBuffer", "Draw", "EndRenderPass" >>

ComputePassRunsAlways(p) == TRUE

\* if (!context->paused)
ComputePassRuns(p) == ~p

NextFrameIdxStuck(idx) == idx

\* frame_idx = (frame_idx + 1) % 2
NextFrameIdx(idx) == (idx + 1) % 2

VertexBufferSwapped(idx) == IF idx = 0 THEN PositionsOut ELSE PositionsIn

\* frame_idx == 0 ? positions_in.buffer : positions_out.buffer
VertexBuffer(idx) == IF idx = 0 THEN PositionsIn ELSE PositionsOut

RecordCommandsOverlayFirst(runs) ==
  (IF runs THEN ComputePassCmds ELSE <<>>)
    \o <<"DrawUI">> \o RenderPassCmds \o <<"Finish">>

\* the commands recorded into the frame's encoder, in recording order
RecordCommands(runs) ==
  (IF runs THEN ComputePassCmds ELSE <<>>)
    \o RenderPassCmds \o <<"DrawUI">> \o <<"Finish">>

\* What one call records, and the frame_idx it leaves behind.
BuildCommandBuffer(p, idx, bgs, n, w) ==
  LET runs == ComputePassRuns(p)
      bg   == bgs[idx + 1]
      idx2 == IF runs THEN NextFrameIdx(idx) ELSE idx
  IN  [ idx_start  |-> idx,
        paused     |-> p,
        dispatched |-> runs,
        bind_group |-> IF runs THEN idx ELSE -1,
        cin        |-> IF runs THEN bg.b0 ELSE NoBuffer,
        cout       |-> IF runs THEN bg.b1 ELSE NoBuffer,
        dispatch   |-> IF runs THEN <<DispatchCount(n, w), 1, 1>>
                               ELSE <<0, 0, 0>>,
        frame_idx  |-> idx2,
        vertex     |-> VertexBuffer(idx2),
        instances  |-> n,
        cmds       |-> RecordCommands(runs) ]

NoFrame ==
  [ idx_start |-> 0, paused |-> FALSE, dispatched |-> FALSE,
    bind_group |-> -1, cin |-> NoBuffer, cout |-> NoBuffer,
    dispatch |-> <<0, 0, 0>>, frame_idx |-> 0, vertex |-> NoBuffer,
    instances |-> 0, cmds |-> <<>>,
    command_buffers |-> 0, matrix |-> ZeroMatrix, changed_at_entry |-> FALSE,
    acquired |-> TRUE ]

BuildCommandBufferReleasesBindGroup(runs) ==
  (IF runs THEN {"cpass_enc"} ELSE {})
    \cup {"rpass_enc", "cmd_enc", "bind_groups.compute[0]"}

\* the objects build_command_buffer releases: the frame's own encoders
BuildCommandBufferReleases(runs) ==
  (IF runs THEN {"cpass_enc"} ELSE {}) \cup {"rpass_enc", "cmd_enc"}

Release(h, objs) ==
  [o \in DOMAIN h |-> IF o \in objs /\ h[o] = "live" THEN "released" ELSE h[o]]

----------------------------------------------------------------------------
(* example_draw and example_render *)

UploadNeededAlways(changed) == TRUE

UploadNeededNever(changed) == FALSE

\* if (render_params.changed)
UploadNeeded(changed) == changed

ExampleRenderOpsReseed(changed, eye_z) ==
  <<SubmitOp>> \o
  (IF UploadNeeded(changed) THEN <<UpdateUniformBuffers(eye_z).write>>
                            ELSE <<>>) \o <<InitBodies>>

ExampleRenderOpsUploadFirst(changed, eye_z) ==
  (IF UploadNeeded(changed) THEN <<UpdateUniformBuffers(eye_z).write>>
                            ELSE <<>>) \o <<SubmitOp>>

\* the queue operations of one example_render call, in issue order:
\* example_draw submits, then the pending upload (if any) is written
ExampleRenderOps(changed, eye_z) ==
  <<SubmitOp>> \o
  (IF UploadNeeded(changed) THEN <<UpdateUniformBuffers(eye_z).write>>
                            ELSE <<>>)

PausedAtComputePassAfterOverlay(p, click) == IF click THEN ~p ELSE p

\* context->paused as the compute-pass test reads it: build_command_buffer
\* tests it first and calls draw_ui, whose callback may toggle it, last
PausedAtComputePass(p, click) == p

\* prepare_frame acquires the next presentable image; it returns nothing
\* example_draw looks at, so the outcome only marks the frame
PrepareFrame(acquire_ok) == acquire_ok

\* ASSERT(command_buffer != NULL)
CommandBufferChecked == TRUE

\* ASSERT on a null handle: a diagnostic, then the process ends; where: the
\* phase it ended in
CheckFailure(where) == where

\* update_fps_counter, the timestamps and the rate it derives from them
\* aside: the first call validates the counter, every call counts a frame
UpdateFpsCounter(c) ==
  [last_fps_update_time_valid |-> TRUE, updates |-> c.updates + 1]

\* One example_render call. click: the overlay checkbox is clicked during
\* draw_ui; acquire_ok: the swap chain yields an image; cb_ok: the encoder
\* yields a command buffer.
ExampleRenderF(click, acquire_ok, cb_ok) ==
  /\ UNCHANGED other_vars
  /\ aborted = "no"
  /\ released = <<>>
  /\ IF ~prepared
       THEN /\ render_result' = 1
            /\ UNCHANGED <<prepared, paused, frame_idx, num_bodies,
                           workgroup_size, eye_position, render_params,
                           uniform_buffer, bind_groups, queue_log, frame,
                           nframes, ndispatch, last_out, out_uses, paused_run,
                           init_result, handles, buffer_sizes,
                           bind_group_layouts, host_writes, aborted, released,
                           fps_counter>>
       ELSE LET cb   == BuildCommandBuffer(PausedAtComputePass(paused, click),
                                           frame_idx,
                                           bind_groups.compute,
                                           num_bodies, workgroup_size)
                ops  == ExampleRenderOps(render_params.changed, eye_position)
                exec == ExecQueue(ops, uniform_buffer, <<>>)
            IN  /\ nframes < MaxFrames
                /\ fps_counter' = UpdateFpsCounter(fps_counter)
                /\ frame_idx' = cb.frame_idx
                \* draw_ui runs the overlay callback: the checkbox may flip
                \* paused
                /\ paused' = IF click THEN ~paused ELSE paused
                /\ handles' = Release(handles,
                                      BuildCommandBufferReleases(cb.dispatched))
                /\ ndispatch' = IF cb.dispatched THEN ndispatch + 1
                                                 ELSE ndispatch
                /\ last_out' = IF cb.dispatched THEN cb.cout ELSE last_out
                /\ out_uses' = IF cb.dispatched
                                 THEN [out_uses EXCEPT ![cb.cout] = @ + 1]
                                 ELSE out_uses
                /\ IF CommandBufferChecked /\ ~cb_ok
                     THEN \* the ASSERT ends the process inside
                          \* build_command_buffer
                          /\ aborted' = CheckFailure("frame")
                          /\ UNCHANGED <<queue_log, uniform_buffer,
                                         render_params, frame, nframes,
                                         paused_run, render_result,
                                         host_writes>>
                     ELSE /\ queue_log' = ops
                          /\ uniform_buffer' = exec.uniform_buffer
                          /\ render_params' =
                               IF UploadNeeded(render_params.changed)
                                 THEN UpdateUniformBuffers(eye_position).render_params
                                 ELSE render_params
                          /\ frame' = [ f \in DOMAIN NoFrame |->
                                         IF f = "command_buffers" THEN 1
                                         ELSE IF f = "matrix" THEN exec.seen[1]
                                         ELSE IF f = "changed_at_entry"
                                           THEN render_params.changed
                                         ELSE IF f = "acquired"
                                           THEN PrepareFrame(acquire_ok)
                                         ELSE cb[f] ]
                          /\ nframes' = nframes + 1
                          /\ paused_run' = IF cb.paused THEN paused_run + 1
                                                        ELSE 0
                          /\ host_writes' =
                               [b \in StorageBuffers |->
                                  host_writes[b] + HostWrites(ops, b)]
                          /\ render_result' = 0
                          /\ UNCHANGED aborted
                /\ UNCHANGED <<prepared, num_bodies, workgroup_size,
                               eye_position, bind_groups, init_result,
                               buffer_sizes, bind_group_layouts, released>>

\* a frame in which the image is acquired and the encoder yields its buffer
ExampleRender(click) == ExampleRenderF(click, TRUE, TRUE)

----------------------------------------------------------------------------
(* example_initialize and example_on_key_pressed *)

\* example_run calls example_initialize before the frame loop, and not again
\* once it has succeeded.  fail: the object whose creation returns a null
\* handle ("none": every creation succeeds).  A failed ASSERT ends the
\* process at that creation; without an ASSERT the null handle is stored and
\* setup goes on.
ExampleInitializeF(context_ok, fail) ==
  /\ UNCHANGED other_vars
  /\ ~prepared
  /\ aborted = "no"
  /\ released = <<>>
  /\ IF context_ok
       THEN LET last  == Len(CreationOrder)
                stop  == IF fail \in CheckedAfterCreation THEN Pos(fail)
                                                          ELSE last + 1
                made(o) == Pos(o) < stop
                up    == UpdateUniformBuffers(eye_position)
                sizes == PrepareStorageBuffers(num_bodies)
                ops   == <<up.write>> \o
                         (IF made("storage_buffers.velocities")
                            THEN <<InitBodies>> ELSE <<>>)
                exec  == ExecQueue(ops, uniform_buffer, <<>>)
            IN  /\ handles' = [o \in Objects |->
                                 IF made(o) /\ o # fail THEN "live" ELSE "null"]
                /\ render_params' = up.render_params
                /\ uniform_buffer' = exec.uniform_buffer
                /\ queue_log' = ops
                /\ host_writes' = [b \in StorageBuffers |->
                                     host_writes[b] + HostWrites(ops, b)]
                /\ buffer_sizes' =
                     [b \in DOMAIN NoSizes |->
                        IF b = RenderParamsBuffer THEN sizes[b]
                        ELSE IF b = PositionsIn
                               /\ stop >= Pos("storage_buffers.positions_in")
                          THEN sizes[b]
                        ELSE IF b = PositionsOut
                               /\ stop >= Pos("storage_buffers.positions_out")
                          THEN sizes[b]
                        ELSE IF b = Velocities
                               /\ stop >= Pos("storage_buffers.velocities")
                          THEN sizes[b]
                        ELSE buffer_sizes[b]]
                /\ bind_group_layouts' =
                     IF stop >= Pos("bind_group_layouts.compute")
                       THEN [compute |-> SetupComputeMinBindingSizes(sizes)]
                       ELSE bind_group_layouts
                /\ bind_groups' =
                     [compute |->
                        [i \in 1..2 |->
                           IF (i = 1 /\ stop >= Pos("bind_groups.compute[0]"))
                              \/ (i = 2 /\ stop >= Pos("bind_groups.compute[1]"))
                             THEN SetupComputeBindGroup[i]
                             ELSE NullBindGroup],
                      compute_sizes |->
                        IF stop >= Pos("bind_groups.compute[0]")
                          THEN SetupComputeBindGroupSizes(sizes)
                          ELSE bind_groups.compute_sizes,
                      render |->
                        IF stop >= Pos("bind_groups.render")
                          THEN RenderParamsBuffer ELSE NoBuffer]
                /\ prepared' = (stop > last)
                /\ aborted' = IF stop > last THEN "no" ELSE CheckFailure("setup")
                /\ init_result' = IF stop > last THEN 0 ELSE init_result
       ELSE /\ init_result' = 1
            /\ UNCHANGED <<render_params, uniform_buffer, queue_log,
                           bind_groups, prepared, handles, buffer_sizes,
                           bind_group_layouts, host_writes, aborted>>
  /\ UNCHANGED <<paused, frame_idx, num_bodies, workgroup_size, eye_position,
                 frame, nframes, ndispatch, last_out, out_uses, paused_run,
                 render_result, released, fps_counter>>

\* example_initialize when every creation succeeds
ExampleInitialize(context_ok) == ExampleInitializeF(context_ok, "none")

KeyDeltaAnyKey(key) ==
  IF key = "KEY_DOWN" THEN 0 - Z_INC ELSE Z_INC

KeyDelta(key) ==
  IF key = "KEY_UP" THEN Z_INC ELSE IF key = "KEY_DOWN" THEN 0 - Z_INC ELSE 0

ExampleOnKeyPressed(key) ==
  LET z == eye_position + KeyDelta(key)
  IN  /\ UNCHANGED other_vars
      /\ aborted = "no"
      /\ released = <<>>
      /\ z - INITIAL_EYE_Z <= MaxEyeSteps * Z_INC
      /\ INITIAL_EYE_Z - z <= MaxEyeSteps * Z_INC
      /\ eye_position' = z
      /\ render_params' =
           IF key \in {"KEY_UP", "KEY_DOWN"}
             THEN [render_params EXCEPT !.changed = TRUE]
             ELSE render_params
      /\ UNCHANGED <<prepared, paused, frame_idx, num_bodies, workgroup_size,
                     uniform_buffer, bind_groups, queue_log, frame, nframes,
                     ndispatch, last_out, out_uses, paused_run, init_result,
                     render_result, handles, buffer_sizes, bind_group_layouts,
                     host_writes, aborted, released, fps_counter>>

\* example_destroy: example_run calls it once, when the frame loop ends
ExampleDestroy ==
  /\ UNCHANGED other_vars
  /\ prepared
  /\ aborted = "no"
  /\ released = <<>>
  /\ released' = DestroyOrder
  /\ handles' = Release(handles, {DestroyOrder[i] : i \in 1..Len(DestroyOrder)})
  /\ UNCHANGED <<prepared, paused, frame_idx, num_bodies, workgroup_size,
                 eye_position, render_params, uniform_buffer, bind_groups,
                 queue_log, frame, nframes, ndispatch, last_out, out_uses,
                 paused_run, init_result, render_result, buffer_sizes,
                 bind_group_layouts, host_writes, aborted, fps_counter>>

----------------------------------------------------------------------------
(* gerstner_waves.c: update_uniform_buffers_gerstner_waves *)
(* Amplitudes and direction components are in thousandths.  *)

WaveUnit == 1000

\* largest r in lo..hi with r * r <= n
RECURSIVE IsqrtIn(_, _, _)
IsqrtIn(n, lo, hi) ==
  IF lo >= hi THEN lo
  ELSE LET mid == (lo + hi + 1) \div 2
       IN  IF mid * mid <= n THEN IsqrtIn(n, mid, hi)
                             ELSE IsqrtIn(n, lo, mid - 1)

MaxRoot == 46340

Isqrt(n) == IsqrtIn(n, 0, MaxRoot)

\* glm_vec2_normalize: the zero vector stays zero, any other vector is
\* scaled by 1 / norm
Vec2Normalize(v) ==
  LET norm == Isqrt(v[1] * v[1] + v[2] * v[2])
  IN  IF norm = 0 THEN <<0, 0>>
      ELSE <<(v[1] * WaveUnit) \div norm, (v[2] * WaveUnit) \div norm>>

\* the initializer of gerstner_wave_params.waves (amplitude, direction)
ProgramWaves ==
  << [amplitude |-> 100, direction |-> <<1000, 1300>>],
     [amplitude |-> 100, direction |-> <<-700, 0>>],
     [amplitude |-> 200, direction |-> <<300, 200>>],
     [amplitude |-> 500, direction |-> <<4300, 1200>>],
     [amplitude |-> 100, direction |-> <<500, 500>>] >>

WaveCount == Len(ProgramWaves)

\* other directions a wave is tried with
TryDirections ==
  { <<0, 0>>, <<0, 1000>>, <<-300, 400>>, <<1000, -1000>>, <<2000, 100>>,
    <<-500, -1200>>, <<100, 700>> }

\* the wave tables the update is run on: the program's, and the program's
\* with the direction of one wave replaced
WaveTables ==
  {ProgramWaves} \cup
  { [ProgramWaves EXCEPT ![i].direction = d] :
      i \in 1..WaveCount, d \in TryDirections }

Directions(waves) == [i \in 1..WaveCount |-> waves[i].direction]

RECURSIVE SumAmplitudes(_, _)
SumAmplitudes(waves, i) ==
  IF i > WaveCount THEN 0 ELSE waves[i].amplitude + SumAmplitudes(waves, i + 1)

NormalizeNeededAlways(normalized) == TRUE

\* if (!gerstner_waves_normalized)
NormalizeNeeded(normalized) == ~normalized

UpdateUniformBuffersGerstnerWaves ==
  LET runs  == NormalizeNeeded(gerstner_waves_normalized)
      waves == IF runs
                 THEN [i \in 1..WaveCount |->
                         [gerstner_wave_params.waves[i] EXCEPT
                            !.direction = Vec2Normalize(@)]]
                 ELSE gerstner_wave_params.waves
      \* the accumulation loop stands after the if block
      params == [waves |-> waves,
                 amplitude_sum |-> gerstner_wave_params.amplitude_sum
                                     + SumAmplitudes(waves, 1)]
  IN  /\ gerstner_wave_params' = params
      /\ gerstner_waves_normalized' = (runs \/ gerstner_waves_normalized)
      /\ wave_buffer' = params
      /\ wave_calls' = wave_calls + 1
      /\ normalize_runs' = IF runs THEN normalize_runs + 1 ELSE normalize_runs
      /\ first_directions' = IF wave_calls = 0 THEN Directions(waves)
                                               ELSE first_directions
      /\ UNCHANGED <<nbody_vars, seed_vars>>

NoWaveBuffer == [waves |-> <<>>, amplitude_sum |-> 0]

\* the static state of gerstner_waves.c, on the wave table given
WavesStatic(table) ==
  /\ gerstner_wave_params = [waves |-> table, amplitude_sum |-> 0]
  /\ gerstner_waves_normalized = FALSE
  /\ wave_buffer = NoWaveBuffer
  /\ wave_calls = 0
  /\ normalize_runs = 0
  /\ first_directions = Directions(table)

----------------------------------------------------------------------------
(* n_body_simulation.c: init_bodies *)
(* Single-precision values are kept on a grid of 2^-SeedFractionBits and *)
(* every product is rounded to it.                                       *)

SeedFractionBits == 14

SeedGrid == Pow2(SeedFractionBits)

\* num / den rounded to the nearest integer
RoundDiv(num, den) == (2 * num + den) \div (2 * den)

\* const float radius = 0.6f
Radius == RoundDiv(6 * SeedGrid, 10)

\* denominator of the sines and cosines drawn
TrigDen == 65

\* cos and sin of the longitudes 2 * PI * float_random(0, 1) drawn
Longitudes ==
  { <<65, 0>>, <<39, 52>>, <<0, 65>>, <<-25, 60>>, <<-65, 0>>, <<-33, -56>>,
    <<0, -65>>, <<63, -16>> }

\* the float_random(0, 1) draws of the latitude, in 1/130
LatitudeDraws == {0, 5, 32, 65, 81, 104, 130}

\* cos(acos(2 * u - 1)), over TrigDen
CosLatitude(u) == u - TrigDen

\* sin(acos(c)) is the non-negative root of 1 - c * c, over TrigDen
SinLatitude(u) == Isqrt(TrigDen * TrigDen - CosLatitude(u) * CosLatitude(u))

\* a sine or cosine as a single-precision value
Trig(t) == RoundDiv(t * SeedGrid, TrigDen)

Mul(a, b) == RoundDiv(a * b, SeedGrid)

InitBodyFlat(lon, u) ==
  << Mul(Mul(Radius, Trig(SinLatitude(u))), Trig(lon[1])),
     Mul(Mul(Radius, Trig(SinLatitude(u))), Trig(lon[2])),
     Mul(Radius, Trig(SinLatitude(u))),
     SeedGrid >>

\* positions[i * 4 + 0..3] of one loop iteration
InitBody(lon, u) ==
  << Mul(Mul(Radius, Trig(SinLatitude(u))), Trig(lon[1])),
     Mul(Mul(Radius, Trig(SinLatitude(u))), Trig(lon[2])),
     Mul(Radius, Trig(CosLatitude(u))),
     SeedGrid >>

\* one init_bodies call: the loop over num_bodies, then the queue write
InitBodiesCall ==
  /\ seed_writes = 0
  /\ \E lon \in [1..seed_count -> Longitudes],
        u \in [1..seed_count -> LatitudeDraws] :
       seed_positions' = [i \in 1..seed_count |-> InitBody(lon[i], u[i])]
  /\ seed_writes' = seed_writes + 1
  /\ UNCHANGED <<seed_count, nbody_vars, waves_vars>>

\* before init_bodies has run, for count bodies
SeedStatic(count) ==
  /\ seed_count = count
  /\ seed_positions = <<>>
  /\ seed_writes = 0

----------------------------------------------------------------------------
(* compute_shader.c: the image-filter example *)

ColorMap == "textures.color_map"

ComputeTarget == "textures.compute_target"

UniformBufferVs == "uniform_buffer_vs"

\* widths and heights the image of load_assets is tried with
TextureExtents == {8, 16, 100, 512}

NoSize == [width |-> 0, height |-> 0]

\* shader_names / compute.pipelines
FilterPipelines == 0..2

\* the invocations per workgroup side of the dispatch
WORKGROUP_EXTENT == 16

\* a texture_t holds a texture, a view of it and a sampler
TextureParts(t) == <<t \o ".texture", t \o ".view", t \o ".sampler">>

\* wgpu_destroy_texture releases the three parts of a texture_t
WgpuDestroyTexture(t) == TextureParts(t)

\* example_initialize: the device objects in the order they are created
CsCreationOrder ==
  TextureParts(ColorMap) \o
  << "vertex_buffer", "index_buffer", UniformBufferVs >> \o
  TextureParts(ComputeTarget) \o
  << "graphics.bind_group_layout", "graphics.pipeline_layout",
     "graphics.bind_group_pre_compute", "graphics.bind_group_post_compute",
     "graphics.pipeline",
     "compute.bind_group_layout", "compute.pipeline_layout",
     "compute.bind_group",
     "compute.pipelines[0]", "compute.pipelines[1]", "compute.pipelines[2]" >>

CsObjects == {CsCreationOrder[i] : i \in 1..Len(CsCreationOrder)}

CsDestroyOrderOnePipeline ==
  WgpuDestroyTexture(ColorMap) \o WgpuDestroyTexture(ComputeTarget) \o
  << "graphics.bind_group_layout", "graphics.bind_group_pre_compute",
     "graphics.bind_group_post_compute", "graphics.pipeline",
     "graphics.pipeline_layout",
     "compute.bind_group_layout", "compute.bind_group",
     "compute.pipeline_layout",
     "compute.pipelines[0]", "compute.pipelines[0]", "compute.pipelines[0]",
     "vertex_buffer", "index_buffer", UniformBufferVs >>

\* example_destroy: the releases in order
CsDestroyOrder ==
  WgpuDestroyTexture(ColorMap) \o WgpuDestroyTexture(ComputeTarget) \o
  << "graphics.bind_group_layout", "graphics.bind_group_pre_compute",
     "graphics.bind_group_post_compute", "graphics.pipeline",
     "graphics.pipeline_layout",
     "compute.bind_group_layout", "compute.bind_group",
     "compute.pipeline_layout",
     "compute.pipelines[0]", "compute.pipelines[1]", "compute.pipelines[2]",
     "vertex_buffer", "index_buffer", UniformBufferVs >>

NoCsBindGroups ==
  [compute |-> [b0 |-> NoBuffer, b1 |-> NoBuffer],
   pre_compute |-> [b0 |-> NoBuffer, b1 |-> NoBuffer],
   post_compute |-> [b0 |-> NoBuffer, b1 |-> NoBuffer]]

CsSetupBindGroupsSwapped ==
  [compute |-> [b0 |-> ColorMap, b1 |-> ComputeTarget],
   pre_compute |-> [b0 |-> UniformBufferVs, b1 |-> ComputeTarget],
   post_compute |-> [b0 |-> UniformBufferVs, b1 |-> ColorMap]]

\* setup_bind_groups and prepare_compute: compute.bind_group reads the view
\* of color_map at binding 0 and writes the view of compute_target at
\* binding 1; the graphics bind groups sample one of the two at binding 1
CsSetupBindGroups ==
  [compute |-> [b0 |-> ColorMap, b1 |-> ComputeTarget],
   pre_compute |-> [b0 |-> UniformBufferVs, b1 |-> ColorMap],
   post_compute |-> [b0 |-> UniformBufferVs, b1 |-> ComputeTarget]]

Cmd(name, arg) == [cmd |-> name, arg |-> arg]

\* compute.pipelines[index]
ComputePipelineAt(index) ==
  <<"compute.pipelines[0]", "compute.pipelines[1]",
    "compute.pipelines[2]">>[index + 1]

\* build_command_buffer: what one call records, in recording order
CsBuildCommandBuffer(index, size) ==
  [ pipeline_index |-> index,
    dispatch |-> << size.width \div WORKGROUP_EXTENT,
                    size.height \div WORKGROUP_EXTENT, 1 >>,
    target   |-> size,
    cmds |->
      << Cmd("BeginComputePass", "none"),
         Cmd("SetComputePipeline", ComputePipelineAt(index)),
         Cmd("SetComputeBindGroup", "compute"),
         Cmd("Dispatch", "none"),
         Cmd("EndComputePass", "none"),
         Cmd("BeginRenderPass", "none"),
         Cmd("SetViewport", "left"),
         Cmd("SetScissorRect", "none"),
         Cmd("SetVertexBuffer", "vertex_buffer"),
         Cmd("SetIndexBuffer", "index_buffer"),
         Cmd("SetPipeline", "graphics.pipeline"),
         Cmd("SetBindGroup", "pre_compute"),
         Cmd("DrawIndexed", "none"),
         Cmd("SetPipeline", "graphics.pipeline"),
         Cmd("SetBindGroup", "post_compute"),
         Cmd("SetViewport", "right"),
         Cmd("DrawIndexed", "none"),
         Cmd("EndRenderPass", "none"),
         Cmd("DrawUI", "none"),
         Cmd("Finish", "none") >>,
    command_buffers |-> 1 ]

NoCsFrame ==
  [ pipeline_index |-> 0, dispatch |-> <<0, 0, 0>>, target |-> NoSize,
    cmds |-> <<>>, command_buffers |-> 0 ]

CsRenderReturnsEarlyNever(prep) == FALSE

\* if (!prepared) return 1;
CsRenderReturnsEarly(prep) == ~prep

\* example_initialize; size: the size of the image load_assets found
CsExampleInitialize(context_ok, size) ==
  /\ example = "compute_shader"
  /\ ~cs_prepared
  /\ cs_released = <<>>
  /\ IF context_ok
       THEN /\ textures' = [color_map |-> size, compute_target |-> size]
            /\ cs_handles' = [o \in CsObjects |-> "live"]
            /\ cs_bind_groups' = CsSetupBindGroups
            \* prepare_uniform_buffers ends with update_uniform_buffers
            /\ cs_uniform_writes' = cs_uniform_writes + 1
            /\ cs_prepared' = TRUE
            /\ cs_init_result' = 0
       ELSE /\ cs_init_result' = 1
            /\ UNCHANGED <<textures, cs_handles, cs_bind_groups,
                           cs_uniform_writes, cs_prepared>>
  /\ UNCHANGED <<compute_pipeline_index, cs_frame, cs_nframes, cs_released,
                 cs_render_result>>
  /\ UNCHANGED <<nbody_vars, waves_vars, seed_vars, gw_vars, example>>

\* example_render; select: the entry picked in the overlay's combo box
\* during draw_ui, -1 if none
CsExampleRender(select) ==
  /\ example = "compute_shader"
  /\ cs_released = <<>>
  /\ IF CsRenderReturnsEarly(cs_prepared)
       THEN /\ cs_render_result' = 1
            /\ UNCHANGED <<compute_pipeline_index, cs_frame, cs_nframes>>
       ELSE /\ cs_nframes < MaxFilterFrames
            /\ cs_frame' = CsBuildCommandBuffer(compute_pipeline_index,
                                                textures.compute_target)
            /\ compute_pipeline_index' =
                 IF select = -1 THEN compute_pipeline_index ELSE select
            /\ cs_nframes' = cs_nframes + 1
            /\ cs_render_result' = 0
  /\ UNCHANGED <<cs_prepared, textures, cs_bind_groups, cs_uniform_writes,
                 cs_handles, cs_released, cs_init_result>>
  /\ UNCHANGED <<nbody_vars, waves_vars, seed_vars, gw_vars, example>>

\* example_on_view_changed: the harness calls it when the camera moved
CsExampleOnViewChanged ==
  /\ example = "compute_shader"
  /\ cs_prepared
  /\ cs_released = <<>>
  /\ cs_uniform_writes < MaxFilterFrames
  /\ cs_uniform_writes' = cs_uniform_writes + 1
  /\ UNCHANGED <<cs_prepared, compute_pipeline_index, textures,
                 cs_bind_groups, cs_frame, cs_nframes, cs_handles,
                 cs_released, cs_init_result, cs_render_result>>
  /\ UNCHANGED <<nbody_vars, waves_vars, seed_vars, gw_vars, example>>

CsExampleDestroy ==
  /\ example = "compute_shader"
  /\ cs_prepared
  /\ cs_released = <<>>
  /\ cs_released' = CsDestroyOrder
  /\ cs_handles' =
       Release(cs_handles, {CsDestroyOrder[i] : i \in 1..Len(CsDestroyOrder)})
  /\ UNCHANGED <<cs_prepared, compute_pipeline_index, textures,
                 cs_bind_groups, cs_frame, cs_nframes, cs_uniform_writes,
                 cs_init_result, cs_render_result>>
  /\ UNCHANGED <<nbody_vars, waves_vars, seed_vars, gw_vars, example>>

\* the static state of compute_shader.c
FilterStatic ==
  /\ cs_prepared = FALSE
  /\ compute_pipeline_index = 0
  /\ textures = [color_map |-> NoSize, compute_target |-> NoSize]
  /\ cs_bind_groups = NoCsBindGroups
  /\ cs_frame = NoCsFrame
  /\ cs_nframes = 0
  /\ cs_uniform_writes = 0
  /\ cs_handles = [o \in CsObjects |-> "null"]
  /\ cs_released = <<>>
  /\ cs_init_result = -1
  /\ cs_render_result = -1

FilterNext ==
  \/ \E ok \in BOOLEAN, w \in TextureExtents, h \in TextureExtents :
       CsExampleInitialize(ok, [width |-> w, height |-> h])
  \/ \E select \in FilterPipelines \cup {-1} : CsExampleRender(select)
  \/ CsExampleOnViewChanged
  \/ CsExampleDestroy

----------------------------------------------------------------------------
(* gerstner_waves.c: the program around the wave-parameter update *)
(* Times are in ticks, mouse positions and angles in whole degrees.       *)

\* the int conversion and x % 360 of C: the remainder has the sign of x
CRem(x, m) == IF x >= 0 THEN x % m ELSE 0 - ((0 - x) % m)

Min2(a, b) == IF a <= b THEN a ELSE b

Max2(a, b) == IF a >= b THEN a ELSE b

\* the initializer of controls
ControlsStatic ==
  [ is_mouse_dragging      |-> FALSE,
    prev_mouse_position    |-> <<50, -25>>,
    mouse_drag_distance    |-> <<0, 0>>,
    current_mouse_position |-> <<50, -25>> ]

\* the context->mouse_position values a frame is tried with
MousePositions == { <<50, -25>>, <<60, -20>> }

Sub2(a, b) == <<a[1] - b[1], a[2] - b[2]>>

\* update_controls(context), context->mouse_buttons.left = left and
\* context->mouse_position = pos
UpdateControls(c, left, pos) ==
  LET c1 == IF ~c.is_mouse_dragging /\ left
              THEN [c EXCEPT !.prev_mouse_position = pos,
                             !.is_mouse_dragging = TRUE]
            ELSE IF c.is_mouse_dragging /\ left
              THEN [c EXCEPT
                      !.mouse_drag_distance = Sub2(pos, c.prev_mouse_position),
                      !.current_mouse_position =
                         Sub2(c.current_mouse_position,
                              Sub2(pos, c.prev_mouse_position)),
                      !.prev_mouse_position = pos]
            ELSE IF c.is_mouse_dragging /\ ~left
              THEN [c EXCEPT !.is_mouse_dragging = FALSE]
            ELSE c
      x == c1.current_mouse_position[1]
      y == c1.current_mouse_position[2]
  IN  [c1 EXCEPT !.current_mouse_position =
                    <<CRem(x, 360), Max2(-90, Min2(-10, y))>>]

\* position_from_view_matrix of the orbit view built from the mouse position
ViewPosition(current_mouse_position) ==
  <<"orbit", current_mouse_position[2], current_mouse_position[1]>>

ElapsedTimeUpdatesAlways(p) == TRUE

\* if (!context->paused)
ElapsedTimeUpdates(p) == ~p

\* update_uniform_buffers_scene: the scene data it leaves, which it writes
\* to uniform_buffers.scene
UpdateUniformBuffersScene(data, p, now, start, c) ==
  [ elapsed_time  |-> IF ElapsedTimeUpdates(p) THEN now - start
                                               ELSE data.elapsed_time,
    view_position |-> ViewPosition(c.current_mouse_position) ]

\* example_initialize: the device objects in the order they are created
GwCreationOrder ==
  << "vertices.buffer", "indices.buffer",
     "uniform_buffers.scene", "uniform_buffers.gerstner_wave_params" >> \o
  TextureParts("sea_color_texture") \o
  << "non_filtering_sampler",
     "bind_group_layouts.uniforms", "bind_group_layouts.textures",
     "pipeline_layout",
     "bind_groups.uniforms", "bind_groups.textures",
     "pipeline",
     "render_pass.multisampled_framebuffer.texture",
     "render_pass.multisampled_framebuffer.view" >>

GwObjects == {GwCreationOrder[i] : i \in 1..Len(GwCreationOrder)}

\* example_destroy: the releases in order
GwDestroyOrder ==
  WgpuDestroyTexture("sea_color_texture") \o
  << "vertices.buffer", "indices.buffer",
     "uniform_buffers.scene", "uniform_buffers.gerstner_wave_params",
     "bind_group_layouts.uniforms", "bind_group_layouts.textures",
     "bind_groups.uniforms", "bind_groups.textures",
     "pipeline_layout", "pipeline", "non_filtering_sampler",
     "render_pass.multisampled_framebuffer.texture",
     "render_pass.multisampled_framebuffer.view" >>

GwExampleRenderCallsWithWaves ==
  << "update_controls", "update_uniform_buffers_scene",
     "update_uniform_buffers_gerstner_waves", "example_draw" >>

\* what example_render calls once prepared
GwExampleRenderCalls ==
  << "update_controls", "update_uniform_buffers_scene", "example_draw" >>

NoGwFrame ==
  [ paused |-> FALSE, prev_paused |-> FALSE, time |-> 0, elapsed_before |-> 0 ]

\* example_initialize: prepare_example takes start_time, and
\* prepare_uniform_buffers runs both uniform updates
GwExampleInitialize(context_ok) ==
  /\ example = "gerstner_waves"
  /\ ~gw_prepared
  /\ gw_released = <<>>
  /\ IF context_ok
       THEN LET data == UpdateUniformBuffersScene(scene_data, gw_paused,
                                                  run_time, run_time, controls)
            IN  /\ start_time' = run_time
                /\ gw_handles' = [o \in GwObjects |-> "live"]
                /\ scene_data' = data
                /\ scene_buffer' = data
                /\ scene_writes' = scene_writes + 1
                /\ UpdateUniformBuffersGerstnerWaves
                /\ gw_prepared' = TRUE
                /\ gw_init_result' = 0
       ELSE /\ gw_init_result' = 1
            /\ UNCHANGED <<start_time, gw_handles, scene_data, scene_buffer,
                           scene_writes, gw_prepared>>
            /\ UNCHANGED <<nbody_vars, waves_vars, seed_vars>>
  /\ UNCHANGED <<gw_paused, run_time, gw_frame, controls, gw_released,
                 gw_nframes, gw_render_result>>
  /\ UNCHANGED <<cs_vars, example>>

\* example_render, with the mouse state the context holds at the call
GwExampleRender(left, pos) ==
  /\ example = "gerstner_waves"
  /\ gw_released = <<>>
  /\ IF ~gw_prepared
       THEN /\ gw_render_result' = 1
            /\ UNCHANGED <<controls, scene_data, scene_buffer, scene_writes,
                           gw_frame, gw_nframes>>
            /\ UNCHANGED <<nbody_vars, waves_vars, seed_vars>>
       ELSE LET c    == UpdateControls(controls, left, pos)
                data == UpdateUniformBuffersScene(scene_data, gw_paused,
                                                  run_time, start_time, c)
            IN  /\ gw_nframes < MaxWaveFrames
                /\ controls' = c
                /\ scene_data' = data
                /\ scene_buffer' = data
                /\ scene_writes' = scene_writes + 1
                /\ IF \E i \in 1..Len(GwExampleRenderCalls) :
                        GwExampleRenderCalls[i]
                          = "update_uniform_buffers_gerstner_waves"
                     THEN UpdateUniformBuffersGerstnerWaves
                     ELSE UNCHANGED <<nbody_vars, waves_vars, seed_vars>>
                /\ gw_frame' = [ paused |-> gw_paused,
                                 prev_paused |-> gw_frame.paused,
                                 time |-> run_time,
                                 elapsed_before |-> scene_data.elapsed_time ]
                /\ gw_nframes' = gw_nframes + 1
                /\ gw_render_result' = 0
  /\ UNCHANGED <<gw_prepared, gw_paused, run_time, start_time, gw_handles,
                 gw_released, gw_init_result>>
  /\ UNCHANGED <<cs_vars, example>>

GwExampleDestroy ==
  /\ example = "gerstner_waves"
  /\ gw_prepared
  /\ gw_released = <<>>
  /\ gw_released' = GwDestroyOrder
  /\ gw_handles' =
       Release(gw_handles, {GwDestroyOrder[i] : i \in 1..Len(GwDestroyOrder)})
  /\ UNCHANGED <<gw_prepared, gw_paused, run_time, gw_frame, start_time,
                 scene_data, controls, scene_buffer, scene_writes,
                 gw_nframes, gw_init_result, gw_render_result>>
  /\ UNCHANGED <<nbody_vars, waves_vars, seed_vars, cs_vars, example>>

\* the harness advances context->run_time between the callbacks
HarnessAdvanceTime ==
  /\ example = "gerstner_waves"
  /\ gw_released = <<>>
  /\ run_time < MaxRunTime
  /\ run_time' = run_time + 1
  /\ UNCHANGED <<gw_prepared, gw_paused, gw_frame, start_time, scene_data,
                 controls, scene_buffer, scene_writes, gw_handles,
                 gw_released, gw_nframes, gw_init_result, gw_render_result>>
  /\ UNCHANGED <<nbody_vars, waves_vars, seed_vars, cs_vars, example>>

\* the harness toggles context->paused on user input
HarnessTogglePaused ==
  /\ example = "gerstner_waves"
  /\ gw_released = <<>>
  /\ gw_paused' = ~gw_paused
  /\ UNCHANGED <<gw_prepared, run_time, gw_frame, start_time, scene_data,
                 controls, scene_buffer, scene_writes, gw_handles,
                 gw_released, gw_nframes, gw_init_result, gw_render_result>>
  /\ UNCHANGED <<nbody_vars, waves_vars, seed_vars, cs_vars, example>>

\* the static state of gerstner_waves.c and of the context, wave table aside
GerstnerStatic ==
  /\ gw_prepared = FALSE
  /\ gw_paused = FALSE
  /\ run_time = 0
  /\ gw_frame = NoGwFrame
  /\ start_time = 0
  /\ scene_data = [elapsed_time |-> 0, view_position |-> <<"zero", 0, 0>>]
  /\ controls = ControlsStatic
  /\ scene_buffer = [elapsed_time |-> 0, view_position |-> <<"zero", 0, 0>>]
  /\ scene_writes = 0
  /\ gw_handles = [o \in GwObjects |-> "null"]
  /\ gw_released = <<>>
  /\ gw_nframes = 0
  /\ gw_init_result = -1
  /\ gw_render_result = -1

GerstnerNext ==
  \/ \E ok \in BOOLEAN : GwExampleInitialize(ok)
  \/ \E left \in BOOLEAN, pos \in MousePositions : GwExampleRender(left, pos)
  \/ GwExampleDestroy
  \/ HarnessAdvanceTime
  \/ HarnessTogglePaused

----------------------------------------------------------------------------
(* The program: static initial state, then the harness's callbacks *)

\* the static state of n_body_simulation.c
NBodyStatic ==
  /\ prepared = FALSE
  /\ paused = FALSE
  /\ frame_idx = 0
  /\ num_bodies = NUM_BODIES
  /\ workgroup_size = WORKGROUP_SIZE
  /\ eye_position = INITIAL_EYE_Z
  /\ render_params = [view_projection_matrix |-> ZeroMatrix, changed |-> TRUE]
  /\ uniform_buffer = ZeroMatrix
  /\ bind_groups = [compute |-> [i \in 1..2 |-> NullBindGroup],
                    compute_sizes |-> [i \in 1..2 |-> [b0 |-> 0, b1 |-> 0, b2 |-> 0]],
                    render  |-> NoBuffer]
  /\ queue_log = <<>>
  /\ frame = NoFrame
  /\ nframes = 0
  /\ ndispatch = 0
  /\ last_out = NoBuffer
  /\ out_uses = [b \in {PositionsIn, PositionsOut} |-> 0]
  /\ paused_run = 0
  /\ init_result = -1
  /\ render_result = -1
  /\ fps_counter = [last_fps_update_time_valid |-> FALSE, updates |-> 0]
  /\ handles = [o \in Objects |-> "null"]
  /\ buffer_sizes = NoSizes
  /\ bind_group_layouts = [compute |-> [b0 |-> 0, b1 |-> 0, b2 |-> 0]]
  /\ host_writes = [b \in StorageBuffers |-> 0]
  /\ aborted = "no"
  /\ released = <<>>

\* the static state of the examples other than the N-body simulation
OthersStatic ==
  /\ GerstnerStatic
  /\ FilterStatic

Init ==
  /\ example = "n_body"
  /\ NBodyStatic
  /\ WavesStatic(ProgramWaves)
  /\ SeedStatic(NUM_BODIES)
  /\ OthersStatic

\* the frame loop while every device call succeeds
Next ==
  \/ \E ok \in BOOLEAN : ExampleInitialize(ok)
  \/ \E click \in BOOLEAN : ExampleRender(click)
  \/ \E key \in Keys : ExampleOnKeyPressed(key)

Spec == Init /\ [][Next]_vars

\* The whole life of the process: setup with a creation that may fail, frames
\* whose image acquisition or command buffer may fail, teardown.
LifeNext ==
  \/ \E ok \in BOOLEAN, fail \in Objects \cup {"none"} :
       ExampleInitializeF(ok, fail)
  \/ /\ nframes < LifeFrames
     /\ \E click \in BOOLEAN, acquire_ok \in BOOLEAN, cb_ok \in BOOLEAN :
          ExampleRenderF(click, acquire_ok, cb_ok)
  \/ \E key \in Keys : ExampleOnKeyPressed(key)
  \/ ExampleDestroy

SpecLifecycle == Init /\ [][LifeNext]_vars

----------------------------------------------------------------------------
(* Dispatch sizing as a function of the body count and the workgroup size: *)
(* the state example_initialize leaves, for each pair, and one frame.      *)

\* small body counts, and the counts around the program's NUM_BODIES
BodyCounts ==
  (1..MaxSmallBodies) \cup ((NUM_BODIES - BodySpread)..(NUM_BODIES + BodySpread))

SizingInit ==
  /\ example = "n_body"
  /\ OthersStatic
  /\ WavesStatic(ProgramWaves)
  /\ SeedStatic(NUM_BODIES)
  /\ prepared = TRUE
  /\ paused = FALSE
  /\ frame_idx = 0
  /\ num_bodies \in BodyCounts
  /\ workgroup_size \in WorkgroupSizes
  /\ eye_position = INITIAL_EYE_Z
  /\ render_params = UpdateUniformBuffers(INITIAL_EYE_Z).render_params
  /\ uniform_buffer = ViewProjection(INITIAL_EYE_Z)
  /\ bind_groups = [compute |-> SetupComputeBindGroup,
                    compute_sizes |->
                      SetupComputeBindGroupSizes(PrepareStorageBuffers(num_bodies)),
                    render  |-> RenderParamsBuffer]
  /\ queue_log = <<UpdateUniformBuffers(INITIAL_EYE_Z).write, InitBodies>>
  /\ handles = [o \in Objects |-> "live"]
  /\ buffer_sizes = PrepareStorageBuffers(num_bodies)
  /\ bind_group_layouts =
       [compute |-> SetupComputeMinBindingSizes(PrepareStorageBuffers(num_bodies))]
  /\ host_writes = [b \in StorageBuffers |-> IF b = PositionsIn THEN 1 ELSE 0]
  /\ aborted = "no"
  /\ released = <<>>
  /\ frame = NoFrame
  /\ nframes = 0
  /\ ndispatch = 0
  /\ last_out = NoBuffer
  /\ out_uses = [b \in {PositionsIn, PositionsOut} |-> 0]
  /\ paused_run = 0
  /\ init_result = 0
  /\ render_result = -1
  /\ fps_counter = [last_fps_update_time_valid |-> FALSE, updates |-> 0]

SizingNext == nframes < SizingFrames /\ \E click \in BOOLEAN : ExampleRender(click)

SpecSizing == SizingInit /\ [][SizingNext]_vars

----------------------------------------------------------------------------
(* The wave-parameter update, called again and again *)

WavesInit ==
  /\ \E table \in WaveTables : WavesStatic(table)
  /\ SeedStatic(NUM_BODIES)
  /\ NBodyStatic
  /\ example = "gerstner_waves"
  /\ OthersStatic

WavesNext ==
  /\ wave_calls < MaxWaveCalls
  /\ UpdateUniformBuffersGerstnerWaves
  /\ UNCHANGED <<gw_vars, cs_vars, example>>

SpecWaves == WavesInit /\ [][WavesNext]_vars

----------------------------------------------------------------------------
(* init_bodies, for every body count *)

SeedInit ==
  /\ \E count \in 1..MaxSeedBodies : SeedStatic(count)
  /\ WavesStatic(ProgramWaves)
  /\ NBodyStatic
  /\ example = "n_body"
  /\ OthersStatic

SeedNext == InitBodiesCall /\ UNCHANGED <<gw_vars, cs_vars, example>>

SpecSeed == SeedInit /\ [][SeedNext]_vars

----------------------------------------------------------------------------
(* The other examples, and any of the three *)

ExamplesInit ==
  /\ NBodyStatic
  /\ WavesStatic(ProgramWaves)
  /\ SeedStatic(NUM_BODIES)
  /\ OthersStatic

GerstnerInit == example = "gerstner_waves" /\ ExamplesInit

SpecGerstner == GerstnerInit /\ [][GerstnerNext]_vars

FilterInit == example = "compute_shader" /\ ExamplesInit

SpecFilter == FilterInit /\ [][FilterNext]_vars

Examples == {"n_body", "gerstner_waves", "compute_shader"}

AnyInit == example \in Examples /\ ExamplesInit

AnyNext ==
  \/ example = "n_body" /\ LifeNext
  \/ GerstnerNext
  \/ FilterNext

SpecExamples == AnyInit /\ [][AnyNext]_vars

----------------------------------------------------------------------------
(* Helpers of the properties *)

\* the step is an example_render call that built and submitted a frame
FrameStep == nframes' = nframes + 1

\* the step is the example_initialize call that succeeded
InitStep == prepared' /\ ~prepared

Count(seq, c) == Cardinality({i \in 1..Len(seq) : seq[i] = c})

Idx(seq, c) == CHOOSE i \in 1..Len(seq) : seq[i] = c

WritesUniform(log) ==
  \E i \in 1..Len(log) : log[i].op = "write" /\ log[i].buf = RenderParamsBuffer

Submits(log) == Cardinality({i \in 1..Len(log) : log[i].op = "submit"})

----------------------------------------------------------------------------
(* N-body frame loop *)

\* C1: while no frame has been paused, frame_idx at the start of the frames
\* alternates 0,1,0,1,... from 0, each frame dispatches with the bind group
\* of that index, and from the second frame on the buffer bound as compute
\* input is the buffer the frame before bound as compute output.
C1_PingPong ==
  /\ [](nframes >= 1 /\ ndispatch = nframes
          => /\ frame.idx_start = (nframes - 1) % 2
             /\ frame.bind_group = frame.idx_start
             /\ frame.cin = bind_groups.compute[frame.idx_start + 1].b0)
  /\ [][FrameStep /\ nframes >= 1 /\ ndispatch = nframes
          /\ ndispatch' = nframes'
          => frame'.cin = frame.cout]_vars

C1_Witness ==
  /\ nframes >= 3
  /\ ndispatch = nframes
  /\ frame.idx_start = 0
  /\ frame.cin = PositionsIn

\* C2: a paused frame records no compute dispatch and leaves frame_idx as it
\* was, and a paused frame that follows a paused frame selects the same
\* vertex buffer, so the selection is one buffer over a run of paused frames.
C2_PausedFreeze ==
  [][FrameStep /\ frame'.paused
       => /\ ~frame'.dispatched
          /\ Count(frame'.cmds, "Dispatch") = 0
          /\ Count(frame'.cmds, "BeginComputePass") = 0
          /\ ndispatch' = ndispatch
          /\ frame_idx' = frame_idx
          /\ (paused_run >= 1 => frame'.vertex = frame.vertex)]_vars

C2_Witness ==
  /\ paused_run >= 3
  /\ ndispatch >= 1
  /\ frame.vertex = PositionsOut

\* C3: compute[0] binds positions_in as input and positions_out as output,
\* compute[1] the reverse; binding 0 is read-only storage and binding 1
\* read-write storage; every recorded dispatch has two different buffers at
\* bindings 0 and 1.
C3_InputOutputDistinct ==
  /\ prepared =>
       /\ bind_groups.compute[1].b0 = PositionsIn
       /\ bind_groups.compute[1].b1 = PositionsOut
       /\ bind_groups.compute[2].b0 = PositionsOut
       /\ bind_groups.compute[2].b1 = PositionsIn
       /\ SetupComputePipelineLayout.b0 = "ReadOnlyStorage"
       /\ SetupComputePipelineLayout.b1 = "Storage"
  /\ frame.dispatched =>
       /\ frame.cin # frame.cout
       /\ frame.cin \in {PositionsIn, PositionsOut}
       /\ frame.cout \in {PositionsIn, PositionsOut}

C3_Witness ==
  /\ frame.dispatched
  /\ frame.bind_group = 1
  /\ frame.cin = PositionsOut
  /\ frame.cout = PositionsIn

\* C4: every frame, paused or not, records exactly one render pass; its
\* vertex buffer is positions_in when frame_idx after the compute step is 0
\* and positions_out otherwise, and it is the output of the latest recorded
\* dispatch, or the seeded positions_in when none was ever recorded.
C4_RenderReadsLatestOutput ==
  nframes >= 1 =>
    /\ Count(frame.cmds, "BeginRenderPass") = 1
    /\ Count(frame.cmds, "SetVertexBuffer") = 1
    /\ Count(frame.cmds, "Draw") = 1
    /\ frame.vertex = (IF frame_idx = 0 THEN PositionsIn ELSE PositionsOut)
    /\ frame.vertex = (IF ndispatch = 0 THEN PositionsIn ELSE last_out)

C4_Witness ==
  /\ frame.paused
  /\ paused_run >= 2
  /\ ndispatch >= 1
  /\ frame.vertex = PositionsOut
  /\ last_out = PositionsOut

\* C5: frame_idx changes only in a step that records a dispatch and flips
\* exactly once in each such step, so it stays in {0,1} and equals the
\* number of dispatches recorded so far modulo 2.
C5_FlipOnlyOnDispatch ==
  /\ [](frame_idx \in {0, 1} /\ frame_idx = ndispatch % 2)
  /\ [][/\ ndispatch' \in {ndispatch, ndispatch + 1}
        /\ (frame_idx' # frame_idx => ndispatch' = ndispatch + 1)
        /\ (ndispatch' = ndispatch + 1 => frame_idx' = 1 - frame_idx)
        /\ (ndispatch' = ndispatch + 1 <=> FrameStep /\ frame'.dispatched)]_vars

C5_Witness ==
  /\ nframes >= 4
  /\ ndispatch = 3
  /\ frame_idx = 1
  /\ paused_run >= 1

\* C6: the x workgroup count of a dispatch is the least d with
\* d * workgroup_size >= num_bodies (128 for 8192 bodies and 129 for 8193
\* bodies at workgroup size 64), and the y and z counts are 1.
C6_DispatchRoundsUp ==
  frame.dispatched =>
    /\ frame.dispatch[1] * workgroup_size >= num_bodies
    /\ (frame.dispatch[1] - 1) * workgroup_size < num_bodies
    /\ frame.dispatch[2] = 1
    /\ frame.dispatch[3] = 1
    /\ (num_bodies = 8192 /\ workgroup_size = 64 => frame.dispatch[1] = 128)
    /\ (num_bodies = 8193 /\ workgroup_size = 64 => frame.dispatch[1] = 129)

C6_Witness ==
  /\ frame.dispatched
  /\ num_bodies = 8193
  /\ workgroup_size = 64
  /\ frame.dispatch = <<129, 1, 1>>

\* C7: after initialization and 10 frames none of which was paused,
\* frame_idx is 0 and exactly 5 of the 10 dispatches used the bind group
\* whose binding 1 is positions_out.
C7_TenFrames ==
  nframes = 10 /\ ndispatch = 10 =>
    /\ frame_idx = 0
    /\ out_uses[PositionsOut] = 5
    /\ out_uses[PositionsIn] = 5

C7_Witness ==
  /\ prepared
  /\ nframes = 10
  /\ ndispatch = 10

\* C8: a handler call writes the render-params uniform buffer only when
\* render_params.changed is true at that moment, the flag is false after the
\* write, and a frame entered with the flag false writes nothing to it.
C8_UploadGatedByChanged ==
  [][/\ ((FrameStep \/ InitStep) /\ WritesUniform(queue_log')
           => /\ render_params.changed
              /\ ~render_params'.changed
              /\ render_params'.view_projection_matrix = uniform_buffer')
     /\ (FrameStep /\ ~render_params.changed
           => /\ ~WritesUniform(queue_log')
              /\ uniform_buffer' = uniform_buffer
              /\ render_params' = render_params)]_vars

C8_Witness ==
  /\ nframes >= 2
  /\ frame.changed_at_entry
  /\ WritesUniform(queue_log)
  /\ ~render_params.changed

\* C9: every submission reads the matrix the calls before it uploaded; when
\* a change is pending at an example_render call, the upload is issued after
\* that call's submission, so that frame uses the old matrix and the buffer
\* then holds the matrix of the current eye position for the next one.
C9_UploadAfterSubmit ==
  [][FrameStep
       => /\ frame'.matrix = uniform_buffer
          /\ (render_params.changed
                => /\ Len(queue_log') = 2
                   /\ queue_log'[1].op = "submit"
                   /\ queue_log'[2] =
                        WriteOp(RenderParamsBuffer, ViewProjection(eye_position))
                   /\ uniform_buffer' = ViewProjection(eye_position))]_vars

C9_Witness ==
  /\ nframes >= 1
  /\ frame.changed_at_entry
  /\ frame.matrix = ViewProjection(INITIAL_EYE_Z)
  /\ uniform_buffer = ViewProjection(INITIAL_EYE_Z + Z_INC)

\* C10: in every frame the compute pass, when there is one, begins and ends
\* before the render pass begins, the overlay is drawn after the render pass
\* ends, the encoder is finished last, and the frame is one command buffer
\* submitted once.
C10_RecordingOrder ==
  nframes >= 1 =>
    /\ (frame.dispatched =>
          /\ Count(frame.cmds, "BeginComputePass") = 1
          /\ Count(frame.cmds, "EndComputePass") = 1
          /\ Idx(frame.cmds, "BeginComputePass") < Idx(frame.cmds, "Dispatch")
          /\ Idx(frame.cmds, "Dispatch") < Idx(frame.cmds, "EndComputePass")
          /\ Idx(frame.cmds, "EndComputePass") < Idx(frame.cmds, "BeginRenderPass"))
    /\ Count(frame.cmds, "BeginRenderPass") = 1
    /\ Count(frame.cmds, "EndRenderPass") = 1
    /\ Count(frame.cmds, "DrawUI") = 1
    /\ Count(frame.cmds, "Finish") = 1
    /\ Idx(frame.cmds, "BeginRenderPass") < Idx(frame.cmds, "EndRenderPass")
    /\ Idx(frame.cmds, "EndRenderPass") < Idx(frame.cmds, "DrawUI")
    /\ Idx(frame.cmds, "DrawUI") < Idx(frame.cmds, "Finish")
    /\ Idx(frame.cmds, "Finish") = Len(frame.cmds)
    /\ frame.command_buffers = 1
    /\ Submits(queue_log) = 1

C10_Witness ==
  /\ nframes >= 2
  /\ frame.dispatched
  /\ Len(frame.cmds) = 13
  /\ Submits(queue_log) = 1

----------------------------------------------------------------------------
(* N-body: setup, frame and teardown failures *)

\* the step is the example_destroy call
DestroyStep == released = <<>> /\ released' # <<>>

\* the pipelines, layouts, bind groups and storage buffers of the program
RegistryObjects == Objects \ {"uniform_buffers.render_params"}

\* C11: if the creation of any device object during example_initialize
\* returns a null handle, initialization aborts: prepared is never TRUE
\* while a null handle is stored.
C11_SetupFailureAborts ==
  prepared => \A o \in Objects : handles[o] # "null"

\* C12: a frame whose surface image could not be acquired is skipped: it
\* records no dispatch, does not flip frame_idx and submits nothing.
C12_FailedAcquireSkipsFrame ==
  (nframes > 0 /\ ~frame.acquired) =>
     /\ ~frame.dispatched
     /\ frame.frame_idx = frame.idx_start
     /\ frame.command_buffers = 0
     /\ Submits(queue_log) = 0

\* C13: a failure while rendering one frame (the encoder yields a null
\* command buffer) never ends the frame loop.
C13_FrameFailureIsolated ==
  aborted # "frame"

\* C14: example_destroy releases every bind group before the bind-group
\* layout it was created from and every pipeline before the pipeline layout
\* it was created from.
C14_TeardownOrder ==
  released # <<>> =>
    \A o \in DOMAIN CreatedFrom :
       Idx(released, o) < Idx(released, CreatedFrom[o])

\* C17: once initialized, positions_in has received exactly one host write
\* (the seed), positions_out and velocities none, and the queue writes of a
\* frame target only the render-params uniform buffer.
C17_NoHostWriteAfterInit ==
  /\ prepared =>
       host_writes = [b \in StorageBuffers |-> IF b = PositionsIn THEN 1 ELSE 0]
  /\ nframes > 0 =>
       \A i \in 1..Len(queue_log) :
          queue_log[i].op = "write" => queue_log[i].buf = RenderParamsBuffer

C17_Witness ==
  /\ prepared
  /\ nframes >= 2
  /\ WritesUniform(queue_log)
  /\ host_writes[PositionsIn] = 1

\* C19: the three storage buffers have size num_bodies * 16, and in both
\* compute bind groups the size bound at each binding is at least the
\* minBindingSize the compute bind-group layout declares for it.
C19_BindingSizesFit ==
  prepared =>
    /\ \A b \in StorageBuffers : buffer_sizes[b] = num_bodies * 16
    /\ \A i \in 1..2 : \A e \in {"b0", "b1", "b2"} :
          bind_groups.compute_sizes[i][e] >= bind_group_layouts.compute[e]

C19_Witness ==
  /\ prepared
  /\ nframes >= 2
  /\ frame.bind_group = 1
  /\ bind_groups.compute[2].b0 = PositionsOut
  /\ bind_groups.compute_sizes[2].b0 = NUM_BODIES * 16
  /\ bind_group_layouts.compute.b0 = NUM_BODIES * 16

\* C20: after example_initialize has succeeded, no frame and no key press
\* changes a pipeline, layout, bind group or storage buffer handle, nor
\* num_bodies or workgroup_size; only example_destroy does.
C20_RegistryImmutable ==
  [][ (prepared /\ ~DestroyStep) =>
        /\ \A o \in RegistryObjects : handles'[o] = handles[o]
        /\ bind_groups' = bind_groups
        /\ bind_group_layouts' = bind_group_layouts
        /\ buffer_sizes' = buffer_sizes
        /\ num_bodies' = num_bodies
        /\ workgroup_size' = workgroup_size ]_vars

C20_Witness ==
  /\ prepared
  /\ released = <<>>
  /\ nframes >= 2
  /\ ndispatch >= 1
  /\ eye_position # INITIAL_EYE_Z
  /\ \A o \in RegistryObjects : handles[o] = "live"
  /\ num_bodies = NUM_BODIES
  /\ workgroup_size = WORKGROUP_SIZE

----------------------------------------------------------------------------
(* Gerstner waves: the wave-parameter update *)

\* C15: the normalize step runs on the first call only (the flag goes from
\* FALSE to TRUE at the first call and stays), and every later call leaves
\* each direction exactly as the first call left it.
C15_NormalizeOnce ==
  /\ gerstner_waves_normalized = (wave_calls >= 1)
  /\ normalize_runs = IF wave_calls >= 1 THEN 1 ELSE 0
  /\ wave_calls >= 1 =>
       Directions(gerstner_wave_params.waves) = first_directions

C15_Witness ==
  /\ wave_calls >= 2
  /\ gerstner_waves_normalized
  /\ first_directions = Directions(gerstner_wave_params.waves)
  /\ first_directions[1] = Vec2Normalize(ProgramWaves[1].direction)
  /\ first_directions[1] # ProgramWaves[1].direction

\* C16: after n >= 1 calls of the update, amplitude_sum is the sum of the
\* five wave amplitudes.
C16_AmplitudeSumOnce ==
  wave_calls >= 1 =>
    gerstner_wave_params.amplitude_sum
      = SumAmplitudes(gerstner_wave_params.waves, 1)

----------------------------------------------------------------------------
(* N-body: seeding *)

\* the xyz norm of p is within ToleranceUlps grid steps of the radius
NormWithin(p) ==
  LET n2 == p[1] * p[1] + p[2] * p[2] + p[3] * p[3]
  IN  /\ (Radius - ToleranceUlps) * (Radius - ToleranceUlps) <= n2
      /\ n2 <= (Radius + ToleranceUlps) * (Radius + ToleranceUlps)

----------------------------------------------------------------------------
(* N-body: key handling, pause and upload across frames *)

\* the step is an example_on_key_pressed call (or leaves the state alone)
KeyStep ==
  /\ nframes' = nframes
  /\ prepared' = prepared
  /\ init_result' = init_result
  /\ render_result' = render_result
  /\ released' = released

\* C22: KEY_UP and KEY_DOWN are the only keys that move eye_position (its z,
\* by +0.025 and -0.025) and the only ones that set render_params.changed;
\* any other key leaves eye_position, render_params.changed and frame_idx
\* unchanged.
C22_OnlyUpDownKeys ==
  /\ [](/\ KeyDelta("KEY_UP") = Z_INC
        /\ KeyDelta("KEY_DOWN") = 0 - Z_INC
        /\ \A key \in Keys \ {"KEY_UP", "KEY_DOWN"} : KeyDelta(key) = 0)
  /\ [][ KeyStep =>
           /\ frame_idx' = frame_idx
           /\ \/ /\ eye_position' - eye_position \in {Z_INC, 0 - Z_INC}
                 /\ render_params'.changed
                 /\ render_params'.view_projection_matrix
                      = render_params.view_projection_matrix
              \/ /\ eye_position' = eye_position
                 /\ render_params' = render_params ]_vars

C22_Witness ==
  /\ prepared
  /\ nframes >= 1
  /\ eye_position = INITIAL_EYE_Z - Z_INC
  /\ render_params.changed
  /\ ~frame.changed_at_entry

\* C23: across any interleaving of paused and running frames, a compute
\* dispatch reads the buffer the preceding frame's render pass used as
\* vertex buffer, and the first dispatch ever reads the seeded positions_in.
C23_DispatchReadsRendered ==
  [][ (FrameStep /\ frame'.dispatched) =>
        /\ nframes >= 1 => frame'.cin = frame.vertex
        /\ ndispatch = 0 => frame'.cin = PositionsIn ]_vars

C23_Witness ==
  /\ nframes >= 4
  /\ frame.dispatched
  /\ frame.cin = PositionsOut
  /\ ndispatch >= 2
  /\ ndispatch < nframes

\* C24: a pause or resume toggled during a frame does not change whether
\* that frame dispatched or flipped frame_idx (both follow the paused flag
\* as it was when the frame began); the next frame follows the new value.
C24_PauseTakesEffectNextFrame ==
  [][ FrameStep =>
        /\ frame'.dispatched = ~paused
        /\ (frame'.frame_idx # frame'.idx_start) = ~paused
        /\ frame'.idx_start = frame_idx
        /\ frame_idx' = frame'.frame_idx ]_vars

C24_Witness ==
  /\ nframes >= 2
  /\ frame.dispatched
  /\ frame.frame_idx # frame.idx_start
  /\ paused

\* C25: whatever keys were pressed since the last frame, an example_render
\* call entered with render_params.changed set performs exactly one uniform
\* upload, and at its return changed is FALSE and the uploaded matrix is
\* the one of the current eye_position.
C25_NoEyeChangeLost ==
  /\ [][ (FrameStep /\ render_params.changed) =>
           /\ Cardinality({i \in 1..Len(queue_log') :
                             queue_log'[i].op = "write"}) = 1
           /\ ~render_params'.changed
           /\ uniform_buffer' = ViewProjection(eye_position') ]_vars
  /\ []((prepared /\ ~render_params.changed) =>
          uniform_buffer = ViewProjection(eye_position))

C25_Witness ==
  /\ nframes >= 2
  /\ frame.changed_at_entry
  /\ ~render_params.changed
  /\ eye_position # INITIAL_EYE_Z
  /\ uniform_buffer = ViewProjection(eye_position)
  /\ WritesUniform(queue_log)

----------------------------------------------------------------------------
(* Image-filter example *)

CmdIdx(cmds, name, arg) ==
  CHOOSE i \in 1..Len(cmds) : cmds[i] = Cmd(name, arg)

\* the step is an example_render call of the image-filter example that
\* built and submitted a frame
CsFrameStep == cs_nframes' = cs_nframes + 1

\* the texture a draw bound with set_at samples: the one its bind group
\* binds at binding 1
DrawnTexture(cmds, set_at) == cs_bind_groups[cmds[set_at].arg].b1

\* C21: every frame of the image-filter example records the compute pass
\* (pipelines[pipeline_index], reading color_map and writing the distinct
\* compute_target) before the render pass, which draws first with the
\* pre-compute bind group (color_map) and then with the post-compute bind
\* group (compute_target), in one command buffer.
C21_FilterFrameOrder ==
  [][ CsFrameStep =>
        LET cmds == cs_frame'.cmds
            draws == {i \in 1..Len(cmds) : cmds[i].cmd = "DrawIndexed"}
            sets  == {i \in 1..Len(cmds) : cmds[i].cmd = "SetBindGroup"}
            first == CHOOSE i \in sets : \A j \in sets : i <= j
            last  == CHOOSE i \in sets : \A j \in sets : j <= i
        IN  /\ cmds[CmdIdx(cmds, "BeginComputePass", "none") + 1]
                 = Cmd("SetComputePipeline",
                       ComputePipelineAt(compute_pipeline_index))
            /\ CmdIdx(cmds, "BeginComputePass", "none")
                 < CmdIdx(cmds, "Dispatch", "none")
            /\ CmdIdx(cmds, "Dispatch", "none")
                 < CmdIdx(cmds, "EndComputePass", "none")
            /\ CmdIdx(cmds, "EndComputePass", "none")
                 < CmdIdx(cmds, "BeginRenderPass", "none")
            /\ cs_bind_groups.compute.b0 = ColorMap
            /\ cs_bind_groups.compute.b1 = ComputeTarget
            /\ Cardinality(draws) = 2
            /\ Cardinality(sets) = 2
            /\ \A i \in draws \cup sets :
                  /\ CmdIdx(cmds, "BeginRenderPass", "none") < i
                  /\ i < CmdIdx(cmds, "EndRenderPass", "none")
            /\ cmds[first].arg = "pre_compute"
            /\ DrawnTexture(cmds, first) = ColorMap
            /\ \E d \in draws : first < d /\ d < last
            /\ cmds[last].arg = "post_compute"
            /\ DrawnTexture(cmds, last) = ComputeTarget
            /\ \E d \in draws : last < d
            /\ cmds[Len(cmds)] = Cmd("Finish", "none")
            /\ cs_frame'.command_buffers = 1 ]_vars

C21_Witness ==
  /\ cs_nframes >= 2
  /\ cs_frame.pipeline_index = 2
  /\ compute_pipeline_index = 1
  /\ Len(cs_frame.cmds) = 20
  /\ cs_frame.command_buffers = 1

\* C29: the dispatched grid (width / 16) x (height / 16) of 16 x 16
\* workgroups covers every pixel of the compute target, for every texture
\* size.
C29_GridCoversTarget ==
  cs_nframes >= 1 =>
    /\ cs_frame.dispatch[1] * WORKGROUP_EXTENT >= textures.compute_target.width
    /\ cs_frame.dispatch[2] * WORKGROUP_EXTENT >= textures.compute_target.height

----------------------------------------------------------------------------
(* Gerstner waves: the program *)

\* the step is an example_render call of the Gerstner example that
\* submitted a frame
GwFrameStep == gw_nframes' = gw_nframes + 1

\* C27: the wave-parameter update runs exactly once per run, from
\* example_initialize and never from a frame, so once initialized
\* amplitude_sum is one times the sum of the five amplitudes and the
\* wave-parameter buffer has been written exactly once.
C27_WaveUpdateOncePerRun ==
  /\ ~gw_prepared => wave_calls = 0
  /\ gw_prepared =>
       /\ wave_calls = 1
       /\ gerstner_wave_params.amplitude_sum
            = SumAmplitudes(gerstner_wave_params.waves, 1)
       /\ gerstner_wave_params.amplitude_sum = SumAmplitudes(ProgramWaves, 1)
       /\ wave_buffer = gerstner_wave_params

C27_Witness ==
  /\ gw_prepared
  /\ gw_nframes >= 2
  /\ wave_calls = 1
  /\ gerstner_waves_normalized
  /\ gerstner_wave_params.amplitude_sum = 1000
  /\ scene_writes >= 3

\* C28: a frame rendered while paused keeps scene_data.elapsed_time, yet
\* updates the camera and re-writes the scene buffer; a frame rendered
\* while not paused sets elapsed_time to run_time - start_time, time spent
\* paused included.
C28_ElapsedFrozenWhilePaused ==
  [][ GwFrameStep =>
        /\ gw_paused => scene_data'.elapsed_time = scene_data.elapsed_time
        /\ ~gw_paused => scene_data'.elapsed_time = run_time - start_time
        /\ scene_data'.view_position
             = ViewPosition(controls'.current_mouse_position)
        /\ \E left \in BOOLEAN, pos \in MousePositions :
              controls' = UpdateControls(controls, left, pos)
        /\ scene_writes' = scene_writes + 1
        /\ scene_buffer' = scene_data' ]_vars

C28_Witness ==
  /\ gw_nframes >= 3
  /\ gw_frame.prev_paused
  /\ ~gw_frame.paused
  /\ scene_data.elapsed_time = gw_frame.time - start_time
  /\ scene_data.elapsed_time >= gw_frame.elapsed_before + 2
  /\ controls.current_mouse_position # ControlsStatic.current_mouse_position

----------------------------------------------------------------------------
(* All three examples *)

\* the N-body state but render_result / but init_result
NBodyButRenderResult ==
  <<prepared, paused, frame_idx, num_bodies, workgroup_size, eye_position,
    render_params, uniform_buffer, bind_groups, queue_log, frame, nframes,
    ndispatch, last_out, out_uses, paused_run, init_result, handles,
    buffer_sizes, bind_group_layouts, host_writes, aborted, released,
    fps_counter>>

NBodyButInitResult ==
  <<prepared, paused, frame_idx, num_bodies, workgroup_size, eye_position,
    render_params, uniform_buffer, bind_groups, queue_log, frame, nframes,
    ndispatch, last_out, out_uses, paused_run, render_result, handles,
    buffer_sizes, bind_group_layouts, host_writes, aborted, released,
    fps_counter>>

GwButRenderResult ==
  <<gw_prepared, gw_paused, run_time, gw_frame, start_time, scene_data,
    controls, scene_buffer, scene_writes, gw_handles, gw_released,
    gw_nframes, gw_init_result, waves_vars>>

GwButInitResult ==
  <<gw_prepared, gw_paused, run_time, gw_frame, start_time, scene_data,
    controls, scene_buffer, scene_writes, gw_handles, gw_released,
    gw_nframes, gw_render_result, waves_vars>>

CsButRenderResult ==
  <<cs_prepared, compute_pipeline_index, textures, cs_bind_groups, cs_frame,
    cs_nframes, cs_uniform_writes, cs_handles, cs_released, cs_init_result>>

CsButInitResult ==
  <<cs_prepared, compute_pipeline_index, textures, cs_bind_groups, cs_frame,
    cs_nframes, cs_uniform_writes, cs_handles, cs_released,
    cs_render_result>>

\* C26: in each example, example_render called while prepared is FALSE
\* returns 1, records and submits nothing and changes no state, and
\* example_initialize called with a null context returns 1 and leaves
\* prepared FALSE.
C26_UnpreparedCallsAreInert ==
  /\ [](/\ ~prepared => /\ render_result \in {-1, 1}
                        /\ nframes = 0 /\ frame = NoFrame /\ frame_idx = 0
                        /\ fps_counter.updates = 0
                        /\ ~fps_counter.last_fps_update_time_valid
        /\ ~gw_prepared => /\ gw_render_result \in {-1, 1}
                           /\ gw_nframes = 0 /\ scene_writes = 0
        /\ ~cs_prepared => /\ cs_render_result \in {-1, 1}
                           /\ cs_nframes = 0 /\ cs_frame = NoCsFrame)
  /\ [][ /\ (~prepared /\ render_result' # render_result) =>
              UNCHANGED NBodyButRenderResult
         /\ (~gw_prepared /\ gw_render_result' # gw_render_result) =>
              UNCHANGED GwButRenderResult
         /\ (~cs_prepared /\ cs_render_result' # cs_render_result) =>
              UNCHANGED CsButRenderResult
         /\ (init_result' = 1 /\ init_result # 1) =>
              ~prepared' /\ UNCHANGED NBodyButInitResult
         /\ (gw_init_result' = 1 /\ gw_init_result # 1) =>
              ~gw_prepared' /\ UNCHANGED GwButInitResult
         /\ (cs_init_result' = 1 /\ cs_init_result # 1) =>
              ~cs_prepared' /\ UNCHANGED CsButInitResult ]_vars

C26_Witness ==
  \/ ~prepared /\ render_result = 1 /\ init_result = 1
  \/ ~gw_prepared /\ gw_render_result = 1 /\ gw_init_result = 1
  \/ ~cs_prepared /\ cs_render_result = 1 /\ cs_init_result = 1

\* rel is a teardown of the objects of h: nothing is left live, and what
\* was released was released by exactly one statement
ReleasedOnce(h, rel) ==
  /\ \A i \in 1..Len(rel) : rel[i] \in DOMAIN h
  /\ \A o \in DOMAIN h :
        /\ h[o] # "live"
        /\ Count(rel, o) = 1

\* C30: in each example, every device object example_initialize created
\* and stored is released exactly once by example_destroy: none is left
\* unreleased, none is released twice.
C30_ReleasedExactlyOnce ==
  /\ released # <<>> => ReleasedOnce(handles, released)
  /\ gw_released # <<>> => ReleasedOnce(gw_handles, gw_released)
  /\ cs_released # <<>> => ReleasedOnce(cs_handles, cs_released)

C30_Witness ==
  \/ released # <<>> /\ \A o \in Objects : handles[o] = "released"
  \/ gw_released # <<>> /\ \A o \in GwObjects : gw_handles[o] = "released"
  \/ cs_released # <<>> /\ \A o \in CsObjects : cs_handles[o] = "released"

====
